---------------------------- MODULE Spec2Model ----------------------------
(***************************************************************************)
(* Model of the two icon generator scripts of the repository:              *)
(*   src/EQ-Translator/logogen.py  (variant "logogen": create_icon_sizes,  *)
(*                                  optimize_for_extension, main)          *)
(*   src/logogeneration.py         (variant "logogeneration": resize_icon, *)
(*                                  main)                                  *)
(* A behaviour is a sequence of runs of one script on one source image and *)
(* one output directory.  The file system (the source file, the output     *)
(* directory, the three icon files) is the only state that survives a run. *)
(***************************************************************************)
EXTENDS Integers, Sequences, FiniteSets, TLC

VARIABLES
    variant,       \* which script is run: "logogen" or "logogeneration"
    src,           \* the source file on disk (environment, never written)
    writable,      \* per output file: can the path be opened for writing
    creatable,     \* can the output directory be created
    dirExists,     \* the output directory exists
    files,         \* contents of the three output paths
    pc,            \* position of the running script
    run,           \* number of the current run, 1..MaxRuns
    source_image,  \* logogen.py: the local source_image of create_icon_sizes
    idx,           \* index of the loop over the sizes
    success,       \* logogen.py: the value returned by create_icon_sizes
    out,           \* what the run has printed so far
    exitStatus,    \* exit status of the process, -1 while it runs
    attempted,     \* sizes whose resize was started in this run, in order
    written,       \* files saved by this run, in order
    prev           \* the file system, written and out when this run started

vars == <<variant, src, writable, creatable, dirExists, files, pc, run,
          source_image, idx, success, out, exitStatus, attempted, written, prev>>

(***************************************************************************)
(* Bounds of the model.                                                    *)
(***************************************************************************)
\* source widths and heights are 64 * k for k in 1..MaxDimSteps
MaxDimSteps == 3
\* number of consecutive runs on the same source and output directory
MaxRuns == 2

Dims == {64 * k : k \in 1..MaxDimSteps}
Modes == {"P", "RGB", "RGBA"}

(***************************************************************************)
(* Program constants.                                                      *)
(***************************************************************************)
\* logogen.py: the dict sizes, iterated in insertion order
sizes == << [filename |-> "icon16.png",  size |-> 16],
            [filename |-> "icon48.png",  size |-> 48],
            [filename |-> "icon128.png", size |-> 128] >>

\* logogeneration.py: the list icon_sizes
icon_sizes == <<16, 48, 128>>

\* logogeneration.py: os.path.join(images_dir, f"icon{size}.png")
output_file(size) ==
    CASE size = 16  -> "icon16.png"
      [] size = 48  -> "icon48.png"
      [] size = 128 -> "icon128.png"

\* logogen.py optimize_for_extension: the resolution below which it warns
min_resolution == 128

\* logogen.py: the size that gets the sharpening filter
sharpen_size == 16

Files == {sizes[i].filename : i \in 1..Len(sizes)}

SizeOf(f) == (CHOOSE i \in 1..Len(sizes) : sizes[i].filename = f) \* index
TargetEdge(f) == sizes[SizeOf(f)].size

(***************************************************************************)
(* File contents.                                                          *)
(***************************************************************************)
NoFile == [kind |-> "none"]
Stale == [kind |-> "stale"]         \* a file left by something else
PngFile(img) == [kind |-> "png", image |-> img]
NoImage == [kind |-> "none"]

(***************************************************************************)
(* The imaging backend (PIL), by what the scripts use of it.               *)
(***************************************************************************)
\* os.path.exists(input_file)
exists_unchecked(s) == TRUE
exists(s) == s.kind # "missing"

\* Image.open: reads the header only; the pixel data is read on first use
open(s) ==
    CASE s.kind = "missing"     -> [exc |-> "FileNotFoundError", image |-> NoImage]
      [] s.kind = "undecodable" -> [exc |-> "UnidentifiedImageError", image |-> NoImage]
      [] OTHER -> [exc |-> "none",
                   image |-> [kind |-> "image", w |-> s.w, h |-> s.h, mode |-> s.mode,
                              resample |-> "none", sharpened |-> FALSE,
                              from |-> <<s.w, s.h, s.mode>>]]

\* Image.load, called by convert and resize: fails on truncated pixel data
loads(s) == s.kind = "ok"

\* Image.convert('RGBA'): same raster, alpha channel added at full opacity
convert(img, mode) == [img EXCEPT !.mode = mode, !.from = <<img.w, img.h, mode>>]

\* Image.resize((size, size), LANCZOS): both edges become size; PIL falls
\* back to NEAREST for palette images; the mode is kept
resize_keep_aspect(img, size) ==
    [img EXCEPT !.w = size, !.h = (size * img.h) \div img.w,
                !.resample = IF img.mode = "P" THEN "NEAREST" ELSE "LANCZOS"]
resize(img, size) ==
    [img EXCEPT !.w = size, !.h = size,
                !.resample = IF img.mode = "P" THEN "NEAREST" ELSE "LANCZOS"]

\* Image.filter(ImageFilter.UnsharpMask(...)): same size and mode
UnsharpMask(img) == [img EXCEPT !.sharpened = TRUE]

HasAlpha(mode) == mode = "RGBA"

Msg(tag, arg) == <<tag, arg>>

Min(a, b) == IF a < b THEN a ELSE b

(***************************************************************************)
(* Initial states: any source, any output directory.                       *)
(***************************************************************************)
Sources ==
    {[kind |-> "missing", w |-> 0, h |-> 0, mode |-> "none"],
     [kind |-> "undecodable", w |-> 0, h |-> 0, mode |-> "none"]}
    \cup [kind : {"truncated", "ok"}, w : Dims, h : Dims, mode : Modes]

Init ==
    /\ variant \in {"logogen", "logogeneration"}
    /\ src \in Sources
    /\ writable \in [Files -> BOOLEAN]
    /\ creatable \in BOOLEAN
    /\ dirExists \in BOOLEAN
    \* logogeneration.py writes beside the source: the directory of an
    \* existing source exists
    /\ (variant = "logogeneration" /\ src.kind # "missing") => dirExists
    /\ files \in [Files -> {NoFile, Stale}]
    /\ ~dirExists => files = [f \in Files |-> NoFile]
    /\ pc = "main"
    /\ run = 1
    /\ source_image = NoImage
    /\ idx = 1
    /\ success = "None"
    /\ out = <<>>
    /\ exitStatus = -1
    /\ attempted = <<>>
    /\ written = <<>>
    /\ prev = [files |-> files, dirExists |-> dirExists, written |-> <<>>, out |-> <<>>]

env == <<variant, src, writable, creatable>>

\* an exception reaches the except clauses of create_icon_sizes, lines 86-93
Raise(msg) ==
    /\ out' = out \o <<msg>>
    /\ success' = "False"
    /\ pc' = "report"

(***************************************************************************)
(* logogen.py                                                              *)
(***************************************************************************)
\* main, lines 136-143: the existence check
main_logogen_exists ==
    /\ variant = "logogen" /\ pc = "main"
    /\ IF ~exists(src)
         THEN /\ out' = out \o <<Msg("NotFound", "")>>
              /\ pc' = "done"
              /\ exitStatus' = 0
         ELSE /\ pc' = "analyze"
              /\ UNCHANGED <<out, exitStatus>>
    /\ UNCHANGED <<env, dirExists, files, run, source_image, idx, success,
                   attempted, written, prev>>

\* the messages of optimize_for_extension, lines 101-122
advisory(s) ==
    LET r == open(s) IN
    IF r.exc # "none"
      THEN <<Msg("CouldNotAnalyze", r.exc)>>
      ELSE (IF r.image.w # r.image.h THEN <<Msg("WarnNotSquare", "")>> ELSE <<>>)
           \o (IF Min(r.image.w, r.image.h) < min_resolution
                 THEN <<Msg("WarnSmall", "")>> ELSE <<>>)
           \o (IF r.image.mode = "RGBA"
                 THEN <<Msg("HasTransparency", "")>>
                 ELSE <<Msg("WillConvert", "")>>)

\* a variant in which a warning ends the run
optimize_for_extension_blocking ==
    /\ variant = "logogen" /\ pc = "analyze"
    /\ out' = out \o advisory(src)
    /\ IF \E i \in 1..Len(advisory(src)) :
            advisory(src)[i][1] \in {"WarnNotSquare", "WarnSmall"}
         THEN pc' = "done" /\ exitStatus' = 0
         ELSE pc' = "open" /\ UNCHANGED exitStatus
    /\ UNCHANGED <<env, dirExists, files, run, source_image, idx, success,
                   attempted, written, prev>>

\* main, lines 145-149: optimize_for_extension(input_file); it catches every
\* exception and returns nothing
optimize_for_extension ==
    /\ variant = "logogen" /\ pc = "analyze"
    /\ out' = out \o advisory(src)
    /\ pc' = "open"
    /\ UNCHANGED <<env, dirExists, files, run, source_image, idx, success,
                   exitStatus, attempted, written, prev>>

\* create_icon_sizes, lines 27-37: open and convert to RGBA
create_icon_sizes_open ==
    /\ variant = "logogen" /\ pc = "open"
    /\ LET r == open(src) IN
       CASE r.exc = "FileNotFoundError" ->
              /\ Raise(Msg("CouldNotFind", ""))
              /\ UNCHANGED source_image
         [] r.exc = "UnidentifiedImageError" ->
              /\ Raise(Msg("Error", r.exc))
              /\ UNCHANGED source_image
         [] OTHER ->
              IF r.image.mode # "RGBA"
                THEN IF loads(src)
                       THEN /\ source_image' = convert(r.image, "RGBA")
                            /\ out' = out \o <<Msg("Converting", ""), Msg("Loaded", "")>>
                            /\ pc' = "makedirs"
                            /\ UNCHANGED success
                       ELSE /\ Raise(Msg("Error", "OSError"))
                            /\ UNCHANGED source_image
                ELSE /\ source_image' = r.image
                     /\ out' = out \o <<Msg("Loaded", "")>>
                     /\ pc' = "makedirs"
                     /\ UNCHANGED success
    /\ UNCHANGED <<env, dirExists, files, run, idx, exitStatus, attempted,
                   written, prev>>

\* line 40: if not os.path.exists(output_dir)
makedirs_unguarded == TRUE
makedirs_needed == ~dirExists

\* create_icon_sizes, lines 39-42: os.makedirs raises FileExistsError on an
\* existing directory and OSError when it cannot create one
create_icon_sizes_makedirs ==
    /\ variant = "logogen" /\ pc = "makedirs"
    /\ IF makedirs_needed
         THEN IF dirExists
                THEN Raise(Msg("Error", "FileExistsError")) /\ UNCHANGED dirExists
                ELSE IF creatable
                       THEN /\ dirExists' = TRUE
                            /\ out' = out \o <<Msg("CreatedDir", "")>>
                            /\ pc' = "loop"
                            /\ UNCHANGED success
                       ELSE Raise(Msg("Error", "OSError")) /\ UNCHANGED dirExists
         ELSE /\ pc' = "loop"
              /\ UNCHANGED <<dirExists, out, success>>
    /\ UNCHANGED <<env, files, run, source_image, idx, exitStatus, attempted,
                   written, prev>>

\* lines 52-57: the raster saved for one size
icon_image(img, size) ==
    LET resized_image == resize(img, size) IN
    IF size = sharpen_size THEN UnsharpMask(resized_image) ELSE resized_image

\* a variant that reports a failed size and goes on with the next one
create_icon_sizes_loop_continue ==
    /\ variant = "logogen" /\ pc = "loop" /\ idx <= Len(sizes)
    /\ LET filename == sizes[idx].filename
           size == sizes[idx].size
       IN /\ attempted' = Append(attempted, size)
          /\ idx' = idx + 1
          /\ IF loads(src) /\ writable[filename]
               THEN /\ files' = [files EXCEPT ![filename] =
                                   PngFile(icon_image(source_image, size))]
                    /\ written' = Append(written, filename)
                    /\ out' = out \o <<Msg("Generating", filename), Msg("Saved", filename)>>
               ELSE /\ out' = out \o <<Msg("Generating", filename), Msg("Error", "OSError")>>
                    /\ UNCHANGED <<files, written>>
    /\ UNCHANGED <<env, dirExists, run, source_image, success, pc, exitStatus, prev>>

\* create_icon_sizes, lines 45-67: one iteration of the loop over sizes;
\* resize reads the pixel data, save opens the output path for writing
create_icon_sizes_loop ==
    /\ variant = "logogen" /\ pc = "loop" /\ idx <= Len(sizes)
    /\ LET filename == sizes[idx].filename
           size == sizes[idx].size
       IN /\ attempted' = Append(attempted, size)
          /\ IF loads(src) /\ writable[filename]
               THEN /\ files' = [files EXCEPT ![filename] =
                                   PngFile(icon_image(source_image, size))]
                    /\ written' = Append(written, filename)
                    /\ out' = out \o <<Msg("Generating", filename), Msg("Saved", filename)>>
                    /\ idx' = idx + 1
                    /\ UNCHANGED <<success, pc>>
               ELSE /\ Raise(Msg("Error", "OSError"))
                    /\ UNCHANGED <<files, written, idx>>
    /\ UNCHANGED <<env, dirExists, run, source_image, exitStatus, prev>>

\* create_icon_sizes, lines 69-95: after the loop
create_icon_sizes_end ==
    /\ variant = "logogen" /\ pc = "loop" /\ idx > Len(sizes)
    /\ out' = out \o <<Msg("Complete", "")>>
    /\ success' = "True"
    /\ pc' = "report"
    /\ UNCHANGED <<env, dirExists, files, run, source_image, idx, exitStatus,
                   attempted, written, prev>>

\* main, lines 152-166, and the return to the interpreter
main_logogen_report ==
    /\ variant = "logogen" /\ pc = "report"
    /\ out' = out \o <<IF success = "True" THEN Msg("NextSteps", "")
                                            ELSE Msg("GenerationFailed", "")>>
    /\ pc' = "done"
    /\ exitStatus' = 0
    /\ UNCHANGED <<env, dirExists, files, run, source_image, idx, success,
                   attempted, written, prev>>

(***************************************************************************)
(* logogeneration.py                                                       *)
(***************************************************************************)
\* main, lines 32-37
main_logogeneration_exists ==
    /\ variant = "logogeneration" /\ pc = "main"
    /\ IF ~exists(src)
         THEN /\ out' = out \o <<Msg("NotFound", "")>>
              /\ pc' = "done"
              /\ exitStatus' = 0
         ELSE /\ out' = out \o <<Msg("Found", "")>>
              /\ pc' = "loop"
              /\ UNCHANGED exitStatus
    /\ UNCHANGED <<env, dirExists, files, run, source_image, idx, success,
                   attempted, written, prev>>

\* resize_icon, lines 4-20: what it returns, writes and prints
resize_icon(input, output_path, size) ==
    LET r == open(input) IN
    IF r.exc = "none" /\ loads(input) /\ dirExists /\ writable[output_path]
      THEN [ok |-> TRUE, file |-> PngFile(resize(r.image, size)),
            msg |-> Msg("Created", output_path)]
      ELSE [ok |-> FALSE, file |-> NoFile, msg |-> Msg("ErrorCreating", output_path)]

\* a variant that leaves the loop at the first failed size
main_logogeneration_loop_break ==
    /\ variant = "logogeneration" /\ pc = "loop" /\ idx <= Len(icon_sizes)
    /\ LET size == icon_sizes[idx]
           output == output_file(size)
           res == resize_icon(src, output, size)
       IN /\ attempted' = Append(attempted, size)
          /\ out' = out \o <<res.msg>>
          /\ idx' = IF res.ok THEN idx + 1 ELSE Len(icon_sizes) + 1
          /\ IF res.ok
               THEN /\ files' = [files EXCEPT ![output] = res.file]
                    /\ written' = Append(written, output)
               ELSE UNCHANGED <<files, written>>
    /\ UNCHANGED <<env, dirExists, run, source_image, success, pc, exitStatus, prev>>

\* main, lines 40-42: one iteration; the value of resize_icon is dropped
main_logogeneration_loop ==
    /\ variant = "logogeneration" /\ pc = "loop" /\ idx <= Len(icon_sizes)
    /\ LET size == icon_sizes[idx]
           output == output_file(size)
           res == resize_icon(src, output, size)
       IN /\ attempted' = Append(attempted, size)
          /\ out' = out \o <<res.msg>>
          /\ idx' = idx + 1
          /\ IF res.ok
               THEN /\ files' = [files EXCEPT ![output] = res.file]
                    /\ written' = Append(written, output)
               ELSE UNCHANGED <<files, written>>
    /\ UNCHANGED <<env, dirExists, run, source_image, success, pc, exitStatus, prev>>

\* main, lines 44-51, and the return to the interpreter
main_logogeneration_end ==
    /\ variant = "logogeneration" /\ pc = "loop" /\ idx > Len(icon_sizes)
    /\ out' = out \o <<Msg("AllCreated", "")>>
    /\ pc' = "done"
    /\ exitStatus' = 0
    /\ UNCHANGED <<env, dirExists, files, run, source_image, idx, success,
                   attempted, written, prev>>

(***************************************************************************)
(* The script is started again on the same source and output directory.    *)
(***************************************************************************)
Rerun ==
    /\ pc = "done" /\ run < MaxRuns
    /\ prev' = [files |-> files, dirExists |-> dirExists, written |-> written,
                out |-> out]
    /\ run' = run + 1
    /\ pc' = "main"
    /\ source_image' = NoImage
    /\ idx' = 1
    /\ success' = "None"
    /\ out' = <<>>
    /\ exitStatus' = -1
    /\ attempted' = <<>>
    /\ written' = <<>>
    /\ UNCHANGED <<env, dirExists, files>>

Next ==
    \/ main_logogen_exists
    \/ optimize_for_extension
    \/ create_icon_sizes_open
    \/ create_icon_sizes_makedirs
    \/ create_icon_sizes_loop
    \/ create_icon_sizes_end
    \/ main_logogen_report
    \/ main_logogeneration_exists
    \/ main_logogeneration_loop
    \/ main_logogeneration_end
    \/ Rerun

Spec == Init /\ [][Next]_vars

(***************************************************************************)
(* Vocabulary of the properties.                                           *)
(***************************************************************************)
Printed(tag) == \E i \in 1..Len(out) : out[i][1] = tag
PrintedFor(tag, arg) == \E i \in 1..Len(out) : out[i] = Msg(tag, arg)
WasWritten(f) == \E i \in 1..Len(written) : written[i] = f
IsPrefix(s, t) == Len(s) <= Len(t) /\ s = SubSeq(t, 1, Len(s))
FileNames == [i \in 1..Len(sizes) |-> sizes[i].filename]
ErrorTags == {"NotFound", "CouldNotFind", "Error", "ErrorCreating", "GenerationFailed"}
ErrorReported == \E i \in 1..Len(out) : out[i][1] \in ErrorTags
SuccessSummary == Printed("AllCreated") \/ Printed("Complete")
AllWritable == \A f \in Files : writable[f]

OutputHasAlpha ==
    \A i \in 1..Len(written) : HasAlpha(files[written[i]].image.mode)

(***************************************************************************)
(* C3: when the source path does not exist, the run reports that the       *)
(* source was not found and ends; it writes no output file, creates no     *)
(* directory, and never reaches a resize or a save.                        *)
(***************************************************************************)
MissingSourceWritesNothing ==
    src.kind = "missing" =>
        /\ pc \in {"main", "done"}
        /\ attempted = <<>> /\ written = <<>>
        /\ files = prev.files /\ dirExists = prev.dirExists
        /\ pc = "done" => out = <<Msg("NotFound", "")>>

MissingSourceRunEnded ==
    src.kind = "missing" /\ pc = "done" /\ ~dirExists /\ Printed("NotFound")

(***************************************************************************)
(* C4: the exit status of the process tells the outcome of the run: zero   *)
(* when all three icons were generated, non-zero when the run reported an  *)
(* error.                                                                  *)
(***************************************************************************)
ExitStatusReflectsOutcome ==
    pc = "done" =>
        (exitStatus = 0 <=> (Len(written) = Len(sizes) /\ ~ErrorReported))

(***************************************************************************)
(* C5: a second run on the same source and output directory writes the     *)
(* same files as the run before it and leaves the files and the directory  *)
(* as that run left them.                                                  *)
(***************************************************************************)
RerunIsIdempotent ==
    (pc = "done" /\ run > 1) =>
        /\ files = prev.files
        /\ dirExists = prev.dirExists
        /\ written = prev.written

RerunAfterCreatingDirectory ==
    /\ pc = "done" /\ run > 1
    /\ Len(written) = Len(sizes)
    /\ \E i \in 1..Len(prev.out) : prev.out[i][1] = "CreatedDir"

(***************************************************************************)
(* C6: in logogen.py, a decodable source that is not square or is smaller  *)
(* than 128 px gets its warning before any resize, and the run still       *)
(* writes all three outputs and reports success wherever the outputs can   *)
(* be written; the outputs are those of the resize, whatever was warned.   *)
(***************************************************************************)
AdvisoryChecksDoNotBlock ==
    (variant = "logogen" /\ src.kind = "ok") =>
        /\ (attempted # <<>> \/ pc = "done") =>
              /\ src.w # src.h => Printed("WarnNotSquare")
              /\ Min(src.w, src.h) < min_resolution => Printed("WarnSmall")
        /\ (pc = "done" /\ dirExists /\ AllWritable) =>
              /\ written = FileNames
              /\ success = "True" /\ Printed("Complete")
        /\ \A i \in 1..Len(written) :
              LET img == open(src).image
                  rgba == IF img.mode # "RGBA" THEN convert(img, "RGBA") ELSE img
              IN files[written[i]] = PngFile(icon_image(rgba, TargetEdge(written[i])))

WarnedAndAllWritten ==
    /\ variant = "logogen" /\ src.kind = "ok" /\ pc = "done"
    /\ Printed("WarnNotSquare") /\ Printed("WarnSmall")
    /\ written = FileNames /\ success = "True"

(***************************************************************************)
(* C7: the summary a run ends with matches what happened: the success      *)
(* summary is printed only when all three files were written, and a run in *)
(* which a size failed ends by reporting failure.                          *)
(***************************************************************************)
SummaryMatchesOutcome ==
    /\ SuccessSummary => Len(written) = Len(sizes)
    /\ (pc = "done" /\ Len(written) < Len(attempted)) =>
          out[Len(out)][1] \in ErrorTags

(***************************************************************************)
(* C8: in logogeneration.py a size that fails is reported and the run goes *)
(* on: the sizes 16, 48, 128 are each attempted once, in that order,       *)
(* whatever happened to the earlier ones, and each size that can be        *)
(* written is written.                                                     *)
(***************************************************************************)
BestEffortContinues ==
    variant = "logogeneration" =>
        /\ IsPrefix(attempted, icon_sizes)
        /\ (pc = "done" /\ exists(src)) => attempted = icon_sizes
        /\ \A i \in 1..Len(attempted) :
              LET f == output_file(attempted[i]) IN
              IF src.kind = "ok" /\ writable[f]
                THEN WasWritten(f) /\ PrintedFor("Created", f)
                ELSE ~WasWritten(f) /\ PrintedFor("ErrorCreating", f)

LaterSizeWrittenAfterFailure ==
    /\ variant = "logogeneration" /\ pc = "done"
    /\ PrintedFor("ErrorCreating", "icon16.png")
    /\ written = <<"icon48.png", "icon128.png">>

(***************************************************************************)
(* C9: in logogen.py an exception ends the run: an error is printed,       *)
(* create_icon_sizes returns False, no later size is processed, and the    *)
(* files written are a prefix of icon16.png, icon48.png, icon128.png; it   *)
(* returns True only when all three were saved.                            *)
(***************************************************************************)
AbortAllOnException ==
    variant = "logogen" =>
        /\ IsPrefix(written, FileNames)
        /\ IsPrefix(attempted, icon_sizes)
        /\ Len(attempted) \in {Len(written), Len(written) + 1}
        /\ Len(attempted) > Len(written) =>
              /\ success = "False"
              /\ pc \in {"report", "done"}
        /\ success = "False" =>
              /\ pc \in {"report", "done"}
              /\ Printed("Error") \/ Printed("CouldNotFind")
              /\ Len(written) < Len(sizes)
              /\ pc = "done" => out[Len(out)] = Msg("GenerationFailed", "")
        /\ success = "True" => written = FileNames

AbortedAfterFirstFile ==
    /\ variant = "logogen" /\ pc = "done" /\ success = "False"
    /\ written = <<"icon16.png">>
    /\ writable["icon128.png"]

(***************************************************************************)
(* C10: an output is sharpened exactly when its target edge length is 16:  *)
(* the 16 px output always, the 48 px and 128 px outputs never.            *)
(***************************************************************************)
SharpenedExactlyAt16 ==
    \A i \in 1..Len(written) :
        files[written[i]].image.sharpened <=> (TargetEdge(written[i]) = sharpen_size)

=============================================================================
